---- MODULE Spec2Model ----
(***************************************************************************)
(* Image search CLI (search.ts, script versions v3.0.1 and v3.4.0).        *)
(*                                                                         *)
(* The durable state is the snapshot file db.json.  One invocation of the  *)
(* program runs main once: either an index run (walk a directory, embed    *)
(* every media file, rewrite db.json) or a search (load db.json, embed the *)
(* query, rank by cosine similarity, filter by threshold, keep topN).      *)
(*                                                                         *)
(* Similarity scores are kept exact: the score dot/(|v1|*|v2|) is the pair *)
(* (num, densq) standing for num / sqrt(densq), and scores are compared    *)
(* by cross-multiplying the signed squares.                                *)
(***************************************************************************)
EXTENDS Integers, Sequences, FiniteSets, TLC

\* ---------------------------------------------------------------- bounds
\* Query-vector coordinates range over -MaxCoord..MaxCoord.
MaxCoord == 1
\* The trailing topN argument ranges over -MaxTopN..MaxTopN (plus the default).
MaxTopN == 2
\* The limit argument of an index run ranges over -1..MaxLimit.
MaxLimit == 2

\* The number of callers that may have a CLIPSingleton getter call in flight.
MaxCallers == 2

\* ----------------------------------------------------- program constants
\* const SIMILARITY_THRESHOLD = 0.28, kept as the fraction 28/100.
SIMILARITY_THRESHOLD_NUM == 28
SIMILARITY_THRESHOLD_DEN == 100
\* search(query, topN = 4) and "let topN = 4" in main.
DEFAULT_TOP_N == 4

IMAGE_EXTENSIONS == {".png", ".jpg", ".jpeg", ".webp"}

\* ------------------------------------------------- the directory fixture
\* fs.readdir(dir, {withFileTypes: true}): the entries of each directory in
\* the order the file system returns them.
FileEntry(n) == [name |-> n, isDir |-> FALSE]
DirEntry(n) == [name |-> n, isDir |-> TRUE]

Dirs == {"pics", "pics/x", "pics/y"}

readdir(dir) ==
    CASE dir = "pics" -> << FileEntry("B.JPG"), FileEntry("a.png"), FileEntry("notes.txt"),
                            DirEntry("x"), DirEntry("y") >>
      [] dir = "pics/x" -> << FileEntry("c.webp"), FileEntry("d.jpeg") >>
      [] dir = "pics/y" -> << FileEntry("e.gif") >>
      [] OTHER -> << >>

\* path.join(dir, name)
pathJoin(dir, name) == dir \o "/" \o name

\* path.extname(name)
extname(name) ==
    CASE name = "a.png" -> ".png"
      [] name = "notes.txt" -> ".txt"
      [] name = "B.JPG" -> ".JPG"
      [] name = "c.webp" -> ".webp"
      [] name = "d.jpeg" -> ".jpeg"
      [] name = "e.gif" -> ".gif"
      [] OTHER -> ""

\* String.prototype.toLowerCase on the extensions of the fixture
toLowerCase(ext) == IF ext = ".JPG" THEN ".jpg" ELSE ext

isImage(name) == toLowerCase(extname(name)) \in IMAGE_EXTENSIONS

MediaFiles == {"pics/a.png", "pics/x/c.webp", "pics/x/d.jpeg", "pics/B.JPG"}

\* The vector the vision model returns for each image of the fixture.
imageEmbedding(filePath) ==
    CASE filePath = "pics/a.png" -> << 1, 0 >>
      [] filePath = "pics/x/c.webp" -> << 0, 1 >>
      [] filePath = "pics/x/d.jpeg" -> << -1, 4 >>
      [] filePath = "pics/B.JPG" -> << 0, 0 >>
      [] OTHER -> << 0, 0 >>

\* The vectors embedText may return for a query.
Coords == (0 - MaxCoord)..MaxCoord
QueryVectors == { << x, y >> : x \in Coords, y \in Coords }

\* ------------------------------------------------------ argument values
Undefined == [kind |-> "undefined", val |-> 0]
NaN == [kind |-> "NaN", val |-> 0]
Num(n) == [kind |-> "num", val |-> n]

\* parseInt(arg, 10) of a trailing argument: an integer or NaN
TopNArgs == { Num(n) : n \in (0 - MaxTopN)..MaxTopN } \cup {NaN}
\* args[2] ? parseInt(args[2], 10) : undefined
LimitArgs == { Num(n) : n \in (0 - 1)..MaxLimit } \cup {NaN, Undefined}

\* The threshold a caller may wish one search to use, in hundredths; search
\* has no parameter that receives it.
ThresholdArgs == {Undefined, Num(60)}

\* The four resources CLIPSingleton holds.
Resources == {"tokenizer", "processor", "visionModel", "textModel"}
Callers == 1..MaxCallers

\* Mutant of Truthy: every number counts as a limit, 0 included.
Truthy_anyNumber(x) == x.kind = "num"

\* JavaScript truthiness of a number | undefined
Truthy(x) == x.kind = "num" /\ x.val # 0

VARIABLES
    dbFile,         \* the durable snapshot db.json: [exists, records]
    failing,        \* the files the provider fails to embed
    unreadable,     \* the directories fs.readdir fails on
    pc,             \* position of the running invocation
    command,        \* main: args[0] of the running invocation
    version,        \* script version of the running invocation
    rootDir,        \* indexImages: imagesDir / rootDir
    limit,          \* indexImages: limit
    imageFiles,     \* indexImages: imageFiles
    idx,            \* indexImages: position of the for-of loop in imageFiles
    processedCount, \* indexImages: processedCount / count
    db,             \* indexImages: the accumulator; search: the loaded store
    attempted,      \* the file paths passed to embedImage, in call order
    topN,           \* search: topN
    queryEmbedding, \* search: queryEmbedding
    allMatches,     \* search: allMatches after the sort
    topMatches,     \* search: topMatches
    opened,         \* the file paths passed to openFile, in call order
    diagnostic,     \* the "best match ... below the threshold" report (0 or 1 match)
    outcome,        \* how the invocation ended
    dbBefore,       \* db.json as it was when the invocation started
    parsed,         \* search: what JSON.parse returned ("none", "array", "object", "null", "string")
    bestMatch,      \* search (v3.0.1): bestMatch with highestSimilarity (0 or 1 match)
    textCall,       \* the embedText call of this invocation ("none", "ok", "failed")
    requestedThreshold, \* the threshold the caller wishes this search to use
    rerun,          \* this invocation repeats the command line of the previous one
    instance,       \* CLIPSingleton: the static fields (0 is null, n the n-th load)
    loadCount,      \* the from_pretrained calls made for each resource in this process
    calls           \* the getter calls in flight, one slot per caller

vars == << dbFile, failing, unreadable, pc, command, version, rootDir, limit, imageFiles, idx,
           processedCount, db, attempted, topN, queryEmbedding, allMatches,
           topMatches, opened, diagnostic, outcome, dbBefore, parsed, bestMatch,
           textCall, requestedThreshold, rerun, instance, loadCount, calls >>

envVars == << failing, unreadable >>
runVars == << command, version, rerun >>
singletonVars == << instance, loadCount, calls >>
indexLocals == << rootDir, limit, imageFiles, idx, processedCount, attempted >>
searchLocals == << topN, queryEmbedding, allMatches, topMatches, opened, diagnostic,
                  parsed, bestMatch, textCall, requestedThreshold >>

\* db.json: absent, or a file whose content is a JSON array of records
\* ("array"), text that JSON.parse rejects ("invalid"), or valid JSON that
\* is not an array: {} ("object"), null ("null") or "" ("string").
NoFile == [exists |-> FALSE, content |-> "none", records |-> << >>]
Snapshot(records) == [exists |-> TRUE, content |-> "array", records |-> records]
InvalidJson == [exists |-> TRUE, content |-> "invalid", records |-> << >>]
NotArray == [exists |-> TRUE, content |-> "object", records |-> << >>]
NullValue == [exists |-> TRUE, content |-> "null", records |-> << >>]
EmptyString == [exists |-> TRUE, content |-> "string", records |-> << >>]

\* The static fields of CLIPSingleton before any getter has run.
NoInstance == [r \in Resources |-> 0]
\* A getter call: the fields it has still to test (todo), the fields it
\* returns (asked), the from_pretrained call it awaits (loading, 0 for none)
\* and what it returned (got).  No caller has called yet.
NoCalls == [c \in Callers |-> [todo |-> << >>, asked |-> {}, loading |-> 0,
                                got |-> NoInstance]]

\* --------------------------------------------------------------- helpers
Front(s) == SubSeq(s, 1, Len(s) - 1)
Last(s) == s[Len(s)]
Min(a, b) == IF a < b THEN a ELSE b
Max(a, b) == IF a > b THEN a ELSE b

RECURSIVE SumTo(_, _)
\* sum of f[1..n]
SumTo(f, n) == IF n = 0 THEN 0 ELSE SumTo(f, n - 1) + f[n]

\* ----------------------------------------------------- cosineSimilarity
\* v1.reduce((sum, a, i) => sum + a * v2[i], 0)
dotProduct(v1, v2) == SumTo([i \in 1..Len(v1) |-> v1[i] * v2[i]], Len(v1))
\* v.reduce((sum, a) => sum + a * a, 0): the square of the magnitude
sumSquares(v) == SumTo([i \in 1..Len(v) |-> v[i] * v[i]], Len(v))

\* The score num / sqrt(densq); the zero-magnitude guard returns 0.
\* Mutant of cosineSimilarity: the zero-magnitude guard is left out, so a
\* zero norm divides by zero (densq 0 stands for the NaN of 0 / 0).
cosineSimilarity_noGuard(v1, v2) ==
    [num |-> dotProduct(v1, v2), densq |-> sumSquares(v1) * sumSquares(v2)]

cosineSimilarity(v1, v2) ==
    IF sumSquares(v1) = 0 \/ sumSquares(v2) = 0
    THEN [num |-> 0, densq |-> 1]
    ELSE [num |-> dotProduct(v1, v2), densq |-> sumSquares(v1) * sumSquares(v2)]

SignedSquare(n) == IF n >= 0 THEN n * n ELSE 0 - (n * n)
\* s1 < s2, s1 = s2 as real numbers
ScoreLess(s1, s2) == SignedSquare(s1.num) * s2.densq < SignedSquare(s2.num) * s1.densq
ScoreEq(s1, s2) == SignedSquare(s1.num) * s2.densq = SignedSquare(s2.num) * s1.densq
ScoreGeq(s1, s2) == ~ScoreLess(s1, s2)

\* match.similarity >= SIMILARITY_THRESHOLD
MeetsThreshold(s) ==
    /\ s.num > 0
    /\ s.num * s.num * SIMILARITY_THRESHOLD_DEN * SIMILARITY_THRESHOLD_DEN
         >= SIMILARITY_THRESHOLD_NUM * SIMILARITY_THRESHOLD_NUM * s.densq

\* ------------------------------------------------- ranking (search, v3.4.0)
\* db.map(entry => ({ entry, similarity: cosineSimilarity(queryEmbedding, entry.embedding) }))
scoreAll(store, q) ==
    [i \in 1..Len(store) |->
        [entry |-> store[i], similarity |-> cosineSimilarity(q, store[i].embedding)]]

\* Mutant of insertMatch: an unstable sort, a new element goes before the
\* elements of equal score.
insertMatch_unstable(sorted, m) ==
    LET later == { i \in 1..Len(sorted) : ~ScoreLess(m.similarity, sorted[i].similarity) }
        pos == IF later = {} THEN Len(sorted) + 1
               ELSE CHOOSE i \in later : \A j \in later : i <= j
    IN  SubSeq(sorted, 1, pos - 1) \o << m >> \o SubSeq(sorted, pos, Len(sorted))

\* One insertion of the stable sort: m goes before the first element the
\* comparator (a, b) => b.similarity - a.similarity orders strictly after it.
insertMatch(sorted, m) ==
    LET later == { i \in 1..Len(sorted) : ScoreLess(sorted[i].similarity, m.similarity) }
        pos == IF later = {} THEN Len(sorted) + 1
               ELSE CHOOSE i \in later : \A j \in later : i <= j
    IN  SubSeq(sorted, 1, pos - 1) \o << m >> \o SubSeq(sorted, pos, Len(sorted))

RECURSIVE sortMatches(_)
\* allMatches.sort((a, b) => b.similarity - a.similarity): Array.prototype.sort
\* is stable, so equal scores keep their order.
sortMatches(ms) ==
    IF ms = << >> THEN << >> ELSE insertMatch(sortMatches(Front(ms)), Last(ms))

\* Mutant of filterMeaningful: the threshold filter is left out.
filterMeaningful_keepAll(ms) == ms

\* allMatches.filter(match => match.similarity >= SIMILARITY_THRESHOLD)
filterMeaningful(ms) == SelectSeq(ms, LAMBDA m : MeetsThreshold(m.similarity))

\* Mutant of slice0: an off-by-one end, slice(0, end + 1).
slice0_offByOne(ms, end) == SubSeq(ms, 1, Min(Max(end + 1, 0), Len(ms)))

\* Array.prototype.slice(0, end): a negative end counts from the end of the array.
slice0(ms, end) ==
    LET k == IF end < 0 THEN Max(Len(ms) + end, 0) ELSE Min(end, Len(ms))
    IN  SubSeq(ms, 1, k)

\* ------------------------------------------------ findImageFilesRecursive
Walked(files) == [threw |-> FALSE, files |-> files]
Thrown == [threw |-> TRUE, files |-> << >>]

RECURSIVE findImageFilesRecursive_v340(_, _)
RECURSIVE scanEntries_v340(_, _, _, _)
\* v3.4.0: fs.readdir is not guarded, so a failure anywhere in the tree
\* propagates out of the whole walk.
findImageFilesRecursive_v340(dir, unread) ==
    IF dir \in unread THEN Thrown ELSE scanEntries_v340(dir, unread, 1, << >>)

\* the for-of loop over the entries of dir, from entry i with imageFiles = acc
scanEntries_v340(dir, unread, i, acc) ==
    IF i > Len(readdir(dir)) THEN Walked(acc)
    ELSE LET entry == readdir(dir)[i]
             fullPath == pathJoin(dir, entry.name)
         IN  IF entry.isDir
             THEN LET sub == findImageFilesRecursive_v340(fullPath, unread)
                  IN  IF sub.threw THEN Thrown
                      ELSE scanEntries_v340(dir, unread, i + 1, acc \o sub.files)
             ELSE IF isImage(entry.name)
                  THEN scanEntries_v340(dir, unread, i + 1, Append(acc, fullPath))
                  ELSE scanEntries_v340(dir, unread, i + 1, acc)

RECURSIVE findImageFilesRecursive_v301(_, _)
RECURSIVE scanEntries_v301(_, _, _, _)
\* v3.0.1: the readdir and the loop are inside try/catch; an unreadable
\* directory is warned about and contributes no files.
findImageFilesRecursive_v301(dir, unread) ==
    IF dir \in unread THEN Walked(<< >>) ELSE scanEntries_v301(dir, unread, 1, << >>)

scanEntries_v301(dir, unread, i, acc) ==
    IF i > Len(readdir(dir)) THEN Walked(acc)
    ELSE LET entry == readdir(dir)[i]
             fullPath == pathJoin(dir, entry.name)
         IN  IF entry.isDir
             THEN scanEntries_v301(dir, unread, i + 1,
                      acc \o findImageFilesRecursive_v301(fullPath, unread).files)
             ELSE IF isImage(entry.name)
                  THEN scanEntries_v301(dir, unread, i + 1, Append(acc, fullPath))
                  ELSE scanEntries_v301(dir, unread, i + 1, acc)

findImageFilesRecursive(v, dir, unread) ==
    IF v = "3.4.0" THEN findImageFilesRecursive_v340(dir, unread)
    ELSE findImageFilesRecursive_v301(dir, unread)

\* ---------------------------------------------------------------- Init
Versions == {"3.0.1", "3.4.0"}

Init ==
    /\ dbFile \in {NoFile, InvalidJson, NotArray, NullValue, EmptyString}
    /\ failing \in SUBSET MediaFiles
    /\ unreadable \in { u \in SUBSET Dirs : Cardinality(u) <= 1 }
    /\ pc = "idle"
    /\ command = "none"
    /\ version = "3.4.0"
    /\ rootDir = "pics"
    /\ limit = Undefined
    /\ imageFiles = << >>
    /\ idx = 1
    /\ processedCount = 0
    /\ db = << >>
    /\ attempted = << >>
    /\ topN = DEFAULT_TOP_N
    /\ queryEmbedding = << >>
    /\ allMatches = << >>
    /\ topMatches = << >>
    /\ opened = << >>
    /\ diagnostic = << >>
    /\ outcome = "none"
    /\ dbBefore = dbFile
    /\ parsed = "none"
    /\ bestMatch = << >>
    /\ textCall = "none"
    /\ requestedThreshold = Undefined
    /\ rerun = FALSE
    /\ instance = NoInstance
    /\ loadCount = NoInstance
    /\ calls = NoCalls

\* A new process: the locals of indexImages and search are not yet set and
\* the static fields of CLIPSingleton are null.
FreshLocals ==
    /\ imageFiles' = << >>
    /\ idx' = 1
    /\ processedCount' = 0
    /\ db' = << >>
    /\ attempted' = << >>
    /\ topN' = DEFAULT_TOP_N
    /\ queryEmbedding' = << >>
    /\ allMatches' = << >>
    /\ topMatches' = << >>
    /\ opened' = << >>
    /\ diagnostic' = << >>
    /\ dbBefore' = dbFile
    /\ parsed' = "none"
    /\ bestMatch' = << >>
    /\ textCall' = "none"
    /\ requestedThreshold' = Undefined
    /\ instance' = NoInstance
    /\ loadCount' = NoInstance
    /\ UNCHANGED calls

\* The locals of an invocation before main has run.
Fresh ==
    /\ command' = "none"
    /\ version' = "3.4.0"
    /\ rootDir' = "pics"
    /\ limit' = Undefined
    /\ rerun' = FALSE
    /\ outcome' = "none"
    /\ FreshLocals

\* The process ends; the next invocation starts with nothing but db.json.
Exit ==
    /\ pc = "done"
    /\ pc' = "idle"
    /\ Fresh
    /\ UNCHANGED << dbFile, envVars >>

Finish(o) == pc' = "done" /\ outcome' = o

\* ------------------------------------------------------- CLIPSingleton
\* One getter awaited to its end with no other getter call in flight:
\* if (this.x === null) { this.x = await X.from_pretrained(MODEL_NAME); }
\* st is the pair of the static fields and the count of from_pretrained calls.
getResource(st, r) ==
    IF st.instance[r] = 0
    THEN [instance |-> [st.instance EXCEPT ![r] = st.loadCount[r] + 1],
          loadCount |-> [st.loadCount EXCEPT ![r] = @ + 1]]
    ELSE st

\* The getters the main thread awaits one after the other.
RECURSIVE getResources(_, _)
getResources(st, rs) ==
    IF rs = << >> THEN st ELSE getResources(getResource(st, Head(rs)), Tail(rs))

\* getInstance of v3.0.1 fills the four fields in this order.
GetInstanceOrder == << "tokenizer", "processor", "visionModel", "textModel" >>

\* The resources indexImages and search ask CLIPSingleton for, in order.
GettersOf(v, cmd) ==
    IF v = "3.0.1" THEN GetInstanceOrder
    ELSE IF cmd = "index" THEN << "visionModel", "processor" >>
    ELSE << "textModel", "tokenizer" >>

\* The static fields after the getters of the running command have returned.
AfterGetters == getResources([instance |-> instance, loadCount |-> loadCount],
                             GettersOf(version, command))

\* ------------------------------------------------------------ index run
\* main, "index" branch, up to the call of indexImages.  v3.0.1 rejects a
\* limit argument that does not parse; v3.4.0 passes NaN on.
MainIndex(v, dir, lim) ==
    /\ pc = "idle"
    /\ command' = "index"
    /\ version' = v
    /\ rootDir' = dir
    /\ limit' = lim
    /\ IF v = "3.0.1" /\ lim.kind = "NaN"
       THEN Finish("LimitNotANumber")
       ELSE pc' = "index_enum" /\ UNCHANGED outcome
    /\ UNCHANGED << dbFile, envVars, imageFiles, idx, processedCount, db, attempted,
                    searchLocals, dbBefore, rerun, singletonVars >>

\* Mutant of noFiles: the zero-files return is left out.
noFiles_never(files) == FALSE

\* if (totalFiles === 0) return;
noFiles(files) == Len(files) = 0

\* indexImages up to its loop: the vision model and the processor are asked
\* of CLIPSingleton, then const imageFiles = await findImageFilesRecursive(dir),
\* the zero-files return and the catch of the enclosing try.
IndexEnumerate ==
    /\ pc = "index_enum"
    /\ instance' = AfterGetters.instance
    /\ loadCount' = AfterGetters.loadCount
    /\ LET walk == findImageFilesRecursive(version, rootDir, unreadable)
       IN  IF walk.threw
           THEN Finish("IndexError") /\ UNCHANGED imageFiles
           ELSE IF noFiles(walk.files)
                THEN Finish("IndexEmpty") /\ UNCHANGED imageFiles
                ELSE pc' = "index_loop" /\ imageFiles' = walk.files /\ UNCHANGED outcome
    /\ UNCHANGED << dbFile, envVars, runVars, rootDir, limit, idx, processedCount, db,
                    attempted, searchLocals, dbBefore, calls >>

\* Mutant of embedAndPush: a failed embedding still pushes a record.
embedAndPush_pushOnFailure(acc, filePath, fails) ==
    Append(acc, [filePath |-> filePath,
                 embedding |-> IF filePath \in fails THEN << >> ELSE imageEmbedding(filePath)])

\* try { const embedding = await embedImage(...); db.push({ filePath, embedding }); }
\* catch (e) { "Skipping file ..." }: acc is db before, the result db after.
embedAndPush(acc, filePath, fails) ==
    IF filePath \in fails THEN acc
    ELSE Append(acc, [filePath |-> filePath, embedding |-> imageEmbedding(filePath)])

\* Mutant of writeDb: the previous records are kept behind the new ones.
writeDb_keepsPrevious(previous, acc) == Snapshot(acc \o previous.records)

\* Mutant of writeDb: the accumulator is appended to the previous snapshot.
writeDb_appends(previous, acc) == Snapshot(previous.records \o acc)

\* fs.writeFile(DB_PATH, JSON.stringify(db, null, 2)): the new content of
\* db.json given its previous content and the accumulator.
writeDb(previous, acc) == Snapshot(acc)

\* Mutant of CapReached: the cap counts the successes, not the attempts.
CapReached_countsSuccesses == Truthy(limit) /\ Len(db) >= limit.val

\* if (limit && processedCount >= limit) break;
CapReached == Truthy(limit) /\ processedCount >= limit.val

\* Mutant of IndexProcessFile: db.json is rewritten after every file.
IndexProcessFile_savesAsItGoes ==
    /\ pc = "index_loop"
    /\ idx <= Len(imageFiles)
    /\ ~CapReached
    /\ processedCount' = processedCount + 1
    /\ attempted' = Append(attempted, imageFiles[idx])
    /\ db' = embedAndPush(db, imageFiles[idx], failing)
    /\ dbFile' = writeDb(dbFile, db')
    /\ idx' = idx + 1
    /\ UNCHANGED << envVars, pc, runVars, rootDir, limit, imageFiles,
                    searchLocals, outcome, dbBefore, singletonVars >>

\* One iteration of the for-of loop that gets past the cap test.
IndexProcessFile ==
    /\ pc = "index_loop"
    /\ idx <= Len(imageFiles)
    /\ ~CapReached
    /\ processedCount' = processedCount + 1
    /\ attempted' = Append(attempted, imageFiles[idx])
    /\ db' = embedAndPush(db, imageFiles[idx], failing)
    /\ idx' = idx + 1
    /\ UNCHANGED << dbFile, envVars, pc, runVars, rootDir, limit, imageFiles,
                    searchLocals, outcome, dbBefore, singletonVars >>

\* The loop ends (list exhausted or cap reached) and the accumulator is
\* written: await fs.writeFile(DB_PATH, JSON.stringify(db, null, 2)).
IndexSave ==
    /\ pc = "index_loop"
    /\ idx > Len(imageFiles) \/ CapReached
    /\ dbFile' = writeDb(dbFile, db)
    /\ Finish("IndexSaved")
    /\ UNCHANGED << envVars, runVars, indexLocals, db, searchLocals, dbBefore,
                    singletonVars >>

\* The same command line is run again in a new process, once the index run
\* before it has ended: nothing but db.json is carried over.
Rerun ==
    /\ pc = "done"
    /\ command = "index"
    /\ ~rerun
    /\ rerun' = TRUE
    /\ IF version = "3.0.1" /\ limit.kind = "NaN"
       THEN Finish("LimitNotANumber")
       ELSE pc' = "index_enum" /\ outcome' = "none"
    /\ FreshLocals
    /\ UNCHANGED << dbFile, envVars, command, version, rootDir, limit >>

\* --------------------------------------------------------------- search
\* main, "search" branch.  v3.4.0: the trailing argument is taken as topN
\* when it parses as a number and is not the only word of the query; v3.0.1
\* has no topN.  Neither version has a parameter for a threshold: the value
\* the caller wishes (wish) is recorded and goes nowhere.
MainSearch(v, parsedLastArg, nQueryArgs, wish) ==
    /\ pc = "idle"
    /\ command' = "search"
    /\ version' = v
    /\ requestedThreshold' = wish
    /\ topN' = IF v = "3.4.0" /\ parsedLastArg.kind = "num" /\ nQueryArgs > 1
               THEN parsedLastArg.val ELSE DEFAULT_TOP_N
    /\ pc' = "search_load"
    /\ UNCHANGED << dbFile, envVars, rerun, indexLocals, db, queryEmbedding, allMatches,
                    topMatches, opened, diagnostic, outcome, dbBefore, parsed,
                    bestMatch, textCall, singletonVars >>

\* db.length of the value JSON.parse returned: the number of records of an
\* array, 0 for the string "", undefined for {}.  (null has no properties:
\* reading its length throws.)
lengthOf(f) ==
    CASE f.content = "array" -> Num(Len(f.records))
      [] f.content = "string" -> Num(0)
      [] OTHER -> Undefined

\* Mutant of isEmptyDb: the emptiness test is left out.
isEmptyDb_never(length) == FALSE

\* if (db.length === 0) { "The database is empty" ; return; }
isEmptyDb(length) == length = Num(0)

\* Mutant of SearchLoad: a missing or unparsable db.json is replaced by an
\* empty one before the search gives up.
SearchLoad_repairs ==
    /\ pc = "search_load"
    /\ IF ~dbFile.exists \/ dbFile.content = "invalid"
       THEN /\ dbFile' = Snapshot(<< >>)
            /\ Finish("StoreNotFound")
            /\ UNCHANGED << db, parsed >>
       ELSE /\ UNCHANGED dbFile
            /\ parsed' = dbFile.content
            /\ db' = dbFile.records
            /\ IF dbFile.content = "null"
               THEN Finish("TypeError")
               ELSE IF isEmptyDb(lengthOf(dbFile))
                    THEN Finish("EmptyCorpus")
                    ELSE pc' = "search_embed" /\ UNCHANGED outcome
    /\ UNCHANGED << envVars, runVars, indexLocals, topN, queryEmbedding,
                    allMatches, topMatches, opened, diagnostic, bestMatch, textCall,
                    requestedThreshold, dbBefore, singletonVars >>

\* search step 1: try { readFile; JSON.parse } catch { "Database file not
\* found"; return }, then the emptiness test on whatever was parsed.  The one
\* catch serves a missing file and text that does not parse.  db.length
\* throws a TypeError on null, outside the try; "" has length 0 and is
\* reported as an empty database; {} has no length 0 and passes the test.
SearchLoad ==
    /\ pc = "search_load"
    /\ IF ~dbFile.exists \/ dbFile.content = "invalid"
       THEN Finish("StoreNotFound") /\ UNCHANGED << db, parsed >>
       ELSE /\ parsed' = dbFile.content
            /\ db' = dbFile.records
            /\ IF dbFile.content = "null"
               THEN Finish("TypeError")
               ELSE IF isEmptyDb(lengthOf(dbFile))
                    THEN Finish("EmptyCorpus")
                    ELSE pc' = "search_embed" /\ UNCHANGED outcome
    /\ UNCHANGED << dbFile, envVars, runVars, indexLocals, topN, queryEmbedding,
                    allMatches, topMatches, opened, diagnostic, bestMatch, textCall,
                    requestedThreshold, dbBefore, singletonVars >>

\* Mutant of SearchEmbed: a failed query embedding is swallowed and the
\* ranking goes on with a zero query vector.
SearchEmbed_swallow(q, ok) ==
    /\ pc = "search_embed"
    /\ instance' = AfterGetters.instance
    /\ loadCount' = AfterGetters.loadCount
    /\ textCall' = IF ok THEN "ok" ELSE "failed"
    /\ queryEmbedding' = IF ok THEN q ELSE << 0, 0 >>
    /\ pc' = IF version = "3.0.1" THEN "search_scan" ELSE "search_rank"
    /\ UNCHANGED << dbFile, envVars, runVars, indexLocals, db, topN, allMatches,
                    topMatches, opened, diagnostic, parsed, bestMatch,
                    requestedThreshold, dbBefore, calls, outcome >>

\* search step 2: the text model and the tokenizer are asked of CLIPSingleton,
\* then the query is embedded; a provider failure rejects search and is
\* printed by main().catch(console.error).
SearchEmbed(q, ok) ==
    /\ pc = "search_embed"
    /\ instance' = AfterGetters.instance
    /\ loadCount' = AfterGetters.loadCount
    /\ IF ok
       THEN /\ textCall' = "ok"
            /\ queryEmbedding' = q
            /\ pc' = IF version = "3.0.1" THEN "search_scan" ELSE "search_rank"
            /\ UNCHANGED outcome
       ELSE /\ textCall' = "failed"
            /\ Finish("ProviderError")
            /\ UNCHANGED queryEmbedding
    /\ UNCHANGED << dbFile, envVars, runVars, indexLocals, db, topN, allMatches,
                    topMatches, opened, diagnostic, parsed, bestMatch,
                    requestedThreshold, dbBefore, calls >>

\* search steps 3-6 (v3.4.0): score, sort, filter, slice, then report and
\* open.  db.map throws a TypeError when the parsed value is not an array.
SearchRank ==
    /\ pc = "search_rank"
    /\ IF parsed = "object"
       THEN /\ Finish("TypeError")
            /\ UNCHANGED << allMatches, topMatches, opened, diagnostic >>
       ELSE LET sorted == sortMatches(scoreAll(db, queryEmbedding))
                meaningfulMatches == filterMeaningful(sorted)
                top == slice0(meaningfulMatches, topN)
            IN  /\ allMatches' = sorted
                /\ topMatches' = top
                /\ IF Len(top) > 0
                   THEN /\ opened' = [i \in 1..Len(top) |-> top[i].entry.filePath]
                        /\ diagnostic' = << >>
                        /\ Finish("Matches")
                   ELSE /\ opened' = << >>
                        /\ diagnostic' = IF Len(sorted) > 0 THEN << sorted[1] >> ELSE << >>
                        /\ Finish("NoMatch")
    /\ UNCHANGED << dbFile, envVars, runVars, indexLocals, db, topN, queryEmbedding,
                    parsed, bestMatch, textCall, requestedThreshold, dbBefore,
                    singletonVars >>

\* Mutant of replacesBest: a record of equal score replaces the best so far.
replacesBest_orEqual(best, similarity) ==
    best = << >> \/ ~ScoreLess(similarity, best[1].similarity)

\* if (similarity > highestSimilarity): every score is above the initial
\* -Infinity, for which best is << >>.
replacesBest(best, similarity) ==
    best = << >> \/ ScoreLess(best[1].similarity, similarity)

\* for (const entry of db) { if (similarity > highestSimilarity) { ... } }:
\* best is << >> while highestSimilarity is -Infinity, else the one match.
RECURSIVE scanBest(_, _, _)
scanBest(entries, q, best) ==
    IF entries = << >> THEN best
    ELSE LET similarity == cosineSimilarity(q, Head(entries).embedding)
         IN  scanBest(Tail(entries), q,
                      IF replacesBest(best, similarity)
                      THEN << [entry |-> Head(entries), similarity |-> similarity] >>
                      ELSE best)

\* v3.0.1 is run from src/search.ts, where for..of is the native iteration,
\* or from the compiled build, where it is an index loop up to db.length.
Builds == {"source", "compiled"}

\* search of v3.0.1 after the query embedding: the linear scan and the
\* report of the best match.  On a parsed {} the native for..of throws a
\* TypeError (not iterable); the index loop of the compiled build runs zero
\* times and "Could not find a suitable match." is printed.
SearchScan(build) ==
    /\ pc = "search_scan"
    /\ IF parsed = "object"
       THEN /\ Finish(IF build = "source" THEN "TypeError" ELSE "NoBest")
            /\ UNCHANGED bestMatch
       ELSE /\ bestMatch' = scanBest(db, queryEmbedding, << >>)
            /\ Finish(IF bestMatch' # << >> THEN "BestMatch" ELSE "NoBest")
    /\ UNCHANGED << dbFile, envVars, runVars, indexLocals, db, topN, queryEmbedding,
                    allMatches, topMatches, opened, diagnostic, parsed, textCall,
                    requestedThreshold, dbBefore, singletonVars >>

Next ==
    \/ \E v \in Versions, dir \in Dirs, lim \in LimitArgs : MainIndex(v, dir, lim)
    \/ IndexEnumerate
    \/ IndexProcessFile
    \/ IndexSave
    \/ Rerun
    \/ \E v \in Versions, a \in TopNArgs, n \in 1..2, wish \in ThresholdArgs :
          MainSearch(v, a, n, wish)
    \/ SearchLoad
    \/ \E q \in QueryVectors, ok \in BOOLEAN : SearchEmbed(q, ok)
    \/ SearchRank
    \/ \E build \in Builds : SearchScan(build)
    \/ Exit

Spec == Init /\ [][Next]_vars

TypeOK ==
    /\ pc \in {"idle", "index_enum", "index_loop", "search_load", "search_embed",
               "search_rank", "search_scan", "done"}
    /\ dbFile.exists \in BOOLEAN
    /\ processedCount \in 0..Len(imageFiles)

\* ======================================================================
\* Properties of the ranking (search, v3.4.0)
\* ======================================================================
\* The search has ranked: steps 3-6 have run on db, queryEmbedding and topN.
Ranked == pc = "done" /\ command = "search" /\ outcome \in {"Matches", "NoMatch"}

\* The score of the record at position j of the loaded store.
ScoreOf(j) == cosineSimilarity(queryEmbedding, db[j].embedding)
\* The positions of the store whose record clears the threshold.
Clearing == { j \in 1..Len(db) : MeetsThreshold(ScoreOf(j)) }
\* The position in the store of a returned match (file paths are unique in a store).
StorePos(m) == CHOOSE j \in 1..Len(db) : db[j] = m.entry
Returned(j) == \E i \in 1..Len(topMatches) : topMatches[i].entry = db[j]

\* C1: every returned match is a record of the store with its own score, and
\* that score is >= the threshold; a record whose score is >= the threshold
\* is absent only when at least topN records were returned, each of them
\* scoring at least as high as the absent one.
C1_ThresholdRespected ==
    Ranked =>
        /\ \A i \in 1..Len(topMatches) :
              /\ \E j \in 1..Len(db) :
                    /\ db[j] = topMatches[i].entry
                    /\ topMatches[i].similarity = ScoreOf(j)
              /\ MeetsThreshold(topMatches[i].similarity)
        /\ \A j \in Clearing :
              ~Returned(j) =>
                  /\ Len(topMatches) >= topN
                  /\ \A i \in 1..Len(topMatches) :
                        ScoreGeq(topMatches[i].similarity, ScoreOf(j))

\* A search where the cap cut a clearing record off and the threshold cut
\* another record off.
C1_Witness ==
    /\ Ranked
    /\ topN >= 1
    /\ Len(topMatches) = topN
    /\ \E j \in Clearing : ~Returned(j)
    /\ \E j \in 1..Len(db) : j \notin Clearing

\* C2: for a non-empty store and a positive topN, the number of matches is
\* min(topN, number of records whose score is >= the threshold).
C2_TopNCapExact ==
    (Ranked /\ Len(db) > 0 /\ topN > 0) =>
        /\ Len(topMatches) = Min(topN, Cardinality(Clearing))
        /\ Len(topMatches) <= topN

\* A search where the cap is the smaller of the two, and more records clear.
C2_Witness ==
    /\ Ranked
    /\ topN = 2
    /\ Cardinality(Clearing) = 3
    /\ Len(topMatches) = 2

\* C3: for every topN <= 0 (zero and every negative integer) a search that
\* reaches the ranking returns an empty match list and opens nothing.
C3_NonPositiveTopNEmpty ==
    (Ranked /\ topN <= 0) =>
        /\ topMatches = << >>
        /\ opened = << >>

\* C4: the match list is in non-increasing score order, and records with
\* equal scores are in store order.
C4_SortedStable ==
    Ranked =>
        \A i \in 1..Len(topMatches), k \in 1..Len(topMatches) :
            i < k =>
                /\ ScoreGeq(topMatches[i].similarity, topMatches[k].similarity)
                /\ ScoreEq(topMatches[i].similarity, topMatches[k].similarity)
                      => StorePos(topMatches[i]) < StorePos(topMatches[k])

\* A match list with a tie and a strict descent.
C4_Witness ==
    /\ Ranked
    /\ Len(topMatches) >= 3
    /\ \E i \in 1..(Len(topMatches) - 1) :
          ScoreEq(topMatches[i].similarity, topMatches[i + 1].similarity)
    /\ \E i \in 1..(Len(topMatches) - 1) :
          ScoreLess(topMatches[i + 1].similarity, topMatches[i].similarity)

\* The earliest position of the store among those with the highest score.
BestPos ==
    CHOOSE j \in 1..Len(db) :
        /\ \A k \in 1..Len(db) : ScoreGeq(ScoreOf(j), ScoreOf(k))
        /\ \A k \in 1..(j - 1) : ScoreLess(ScoreOf(k), ScoreOf(j))

\* C5: with a non-empty store, when no record clears the threshold the match
\* list is empty, nothing is opened and the diagnostic is the earliest
\* highest-scoring record; when some record clears it, no diagnostic is
\* reported.
C5_DiagnosticOnlyBelowThreshold ==
    (Ranked /\ Len(db) > 0) =>
        /\ Clearing = {} =>
              /\ topMatches = << >>
              /\ opened = << >>
              /\ diagnostic = << [entry |-> db[BestPos], similarity |-> ScoreOf(BestPos)] >>
        /\ Clearing # {} => diagnostic = << >>

\* ======================================================================
\* Properties of the index run (indexImages, both versions)
\* ======================================================================
\* What the fixture holds, stated apart from the walk: the media files under
\* each directory in depth-first readdir order, each file's directory, and
\* the directories of each subtree.
MediaUnder(dir) ==
    CASE dir = "pics" -> << "pics/B.JPG", "pics/a.png", "pics/x/c.webp", "pics/x/d.jpeg" >>
      [] dir = "pics/x" -> << "pics/x/c.webp", "pics/x/d.jpeg" >>
      [] OTHER -> << >>
DirOf(filePath) == IF filePath \in {"pics/x/c.webp", "pics/x/d.jpeg"} THEN "pics/x" ELSE "pics"
SubDirs(dir) == IF dir = "pics" THEN Dirs ELSE {dir}

\* The media files under root that lie in readable directories.
VisibleMedia(root, unread) ==
    SelectSeq(MediaUnder(root), LAMBDA f : root \notin unread /\ DirOf(f) \notin unread)

\* The records of the files the provider embeds, in the order of files.
Embedded(files) ==
    LET good == SelectSeq(files, LAMBDA f : f \notin failing)
    IN  [i \in 1..Len(good) |-> [filePath |-> good[i], embedding |-> imageEmbedding(good[i])]]

Range(seq) == { seq[i] : i \in 1..Len(seq) }

\* indexImages has returned.
IndexRan == pc = "done" /\ command = "index" /\ outcome # "LimitNotANumber"
\* The walk returned at least one media file.
Discovered == command = "index" /\ imageFiles # << >>

\* C6: an index run without a cap attempts every discovered file exactly
\* once, in enumeration order, and ends by persisting exactly the records of
\* the files the provider embeds, in that order; failures are skipped.
C6_ResilientIndexing ==
    (Discovered /\ limit = Undefined) =>
        /\ attempted = SubSeq(imageFiles, 1, idx - 1)
        /\ db = Embedded(attempted)
        /\ pc = "index_loop" => (ENABLED IndexProcessFile \/ ENABLED IndexSave)
        /\ pc = "done" =>
              /\ outcome = "IndexSaved"
              /\ attempted = imageFiles
              /\ imageFiles = VisibleMedia(rootDir, unreadable)
              /\ dbFile = Snapshot(Embedded(imageFiles))
              /\ Len(dbFile.records) =
                    Cardinality({ i \in 1..Len(imageFiles) : imageFiles[i] \notin failing })

\* A finished uncapped run with a failing file ahead of an embedded one.
C6_Witness ==
    /\ IndexRan /\ limit = Undefined /\ outcome = "IndexSaved"
    /\ Len(attempted) = 4
    /\ attempted[1] \in failing
    /\ attempted[2] \notin failing
    /\ Len(dbFile.records) = 2

\* C7: an index run with cap k >= 1 over T discovered files attempts exactly
\* the first min(k, T) files, failures included, never a file beyond the
\* k-th, and ends by saving the accumulator.
C7_CapCountsAttempts ==
    (Discovered /\ Truthy(limit) /\ limit.val >= 1) =>
        /\ Len(attempted) <= Min(limit.val, Len(imageFiles))
        /\ attempted = SubSeq(imageFiles, 1, Len(attempted))
        /\ pc = "done" =>
              /\ Len(attempted) = Min(limit.val, Len(imageFiles))
              /\ outcome = "IndexSaved"
              /\ dbFile = Snapshot(db)
              /\ db = Embedded(attempted)

\* A capped run that stopped early, a failed attempt having used up the cap.
C7_Witness ==
    /\ IndexRan /\ outcome = "IndexSaved"
    /\ limit = Num(2)
    /\ Len(imageFiles) = 4
    /\ Len(attempted) = 2
    /\ attempted[1] \in failing
    /\ Len(dbFile.records) = 1

\* C8: every index run that discovers at least one media file ends by
\* overwriting db.json with exactly the records accumulated in that run; no
\* record of the previous snapshot survives unless embedded again in this run.
C8_SaveIsFullReplace ==
    (IndexRan /\ Discovered) =>
        /\ outcome = "IndexSaved"
        /\ dbFile = Snapshot(db)
        /\ db = Embedded(attempted)
        /\ \A i \in 1..Len(dbFile.records) :
              dbFile.records[i].filePath \in Range(attempted) \ failing

\* A run that replaced a snapshot holding a record it did not embed again.
C8_Witness ==
    /\ IndexRan /\ outcome = "IndexSaved"
    /\ dbBefore.exists
    /\ \E i \in 1..Len(dbBefore.records) :
          dbBefore.records[i] \notin Range(dbFile.records)
    /\ Len(dbFile.records) >= 1

\* The walk of this run returns (or returned) no media file.
ZeroDiscovered ==
    /\ command = "index"
    /\ outcome # "LimitNotANumber"
    /\ VisibleMedia(rootDir, unreadable) = << >>
    /\ ~(version = "3.4.0" /\ SubDirs(rootDir) \cap unreadable # {})

\* C9: an index run that discovers zero media files writes nothing: db.json
\* stays as it was before the run (absent stays absent), nothing is
\* attempted, and the run ends with the empty-result outcome, not an error.
C9_NoFilesNoWrite ==
    ZeroDiscovered =>
        /\ dbFile = dbBefore
        /\ attempted = << >>
        /\ pc = "done" => outcome = "IndexEmpty"

\* A zero-file run over a pre-existing store.
C9_Witness ==
    /\ ZeroDiscovered /\ pc = "done" /\ outcome = "IndexEmpty"
    /\ dbFile.exists /\ Len(dbFile.records) >= 1

\* C10: when reading one subdirectory fails (the root being readable), the
\* media files of the readable directories are still enumerated and
\* processed and the run completes with a store write, in both versions.
C10_UnreadableSubdirContained ==
    (IndexRan /\ rootDir \notin unreadable /\ (SubDirs(rootDir) \ {rootDir}) \cap unreadable # {}) =>
        /\ outcome # "IndexError"
        /\ imageFiles = VisibleMedia(rootDir, unreadable)
        /\ imageFiles # << >> => (outcome = "IndexSaved" /\ dbFile = Snapshot(db))

\* C11: in every state of an index run before its final save step, db.json
\* is what it was before the run started: a run stopped at any such point
\* leaves the pre-run store and persists none of its embeddings.
C11_NoWriteBeforeSave ==
    (command = "index" /\ pc # "done") => dbFile = dbBefore

\* A run in mid-loop over a pre-existing store, holding embeddings that
\* db.json does not have.
C11_Witness ==
    /\ command = "index" /\ pc = "index_loop"
    /\ Len(db) >= 2
    /\ dbFile.exists
    /\ \E i \in 1..Len(db) : db[i] \notin Range(dbFile.records)

\* ======================================================================
\* Properties of the store loading and of the failures of a search
\* ======================================================================
\* A search invocation has ended.
SearchEnded == pc = "done" /\ command = "search"
\* The search returned nothing: no match, no best match, no file opened.
NothingReturned == topMatches = << >> /\ bestMatch = << >> /\ opened = << >>
\* db.json holds an array of records.
IsStore(f) == f.exists /\ f.content = "array"

\* C12: a search that ends on a db.json that is absent has the outcome
\* StoreNotFound; one that ends on a db.json that exists but does not hold an
\* array of records has the different outcome StoreCorrupt; both return
\* nothing.
C12_LoadFailuresDistinguished ==
    SearchEnded =>
        /\ (~dbFile.exists => outcome = "StoreNotFound")
        /\ (dbFile.exists /\ dbFile.content # "array" => outcome = "StoreCorrupt")
        /\ (~IsStore(dbFile) => NothingReturned)

\* C13: a search that ends on a db.json holding an array of zero records has
\* the outcome EmptyCorpus (not the StoreNotFound of a missing file, not the
\* NoMatch of a ranking), returns nothing and reports no diagnostic.
C13_EmptyCorpus ==
    (SearchEnded /\ IsStore(dbFile) /\ Len(dbFile.records) = 0) =>
        /\ outcome = "EmptyCorpus"
        /\ outcome \notin {"StoreNotFound", "NoMatch"}
        /\ NothingReturned
        /\ diagnostic = << >>

\* An index run of v3.4.0 has written an empty array (every embedding failed)
\* and a later search has ended on it.
C13_Witness ==
    /\ SearchEnded /\ IsStore(dbFile) /\ Len(dbFile.records) = 0
    /\ outcome = "EmptyCorpus"
    /\ failing # {}

\* C14: a search whose query embedding failed has ended in ProviderError with
\* no match, no diagnostic and no file opened, and db.json is what it was
\* when the search started.
C14_QueryEmbeddingFailureFatal ==
    (pc = "done" /\ textCall = "failed") =>
        /\ outcome = "ProviderError"
        /\ NothingReturned
        /\ allMatches = << >>
        /\ diagnostic = << >>
        /\ dbFile = dbBefore

\* The query embedding failed in a search over a store of at least two records.
C14_Witness ==
    /\ pc = "done" /\ textCall = "failed" /\ command = "search"
    /\ Len(db) >= 2
    /\ outcome = "ProviderError"

\* ======================================================================
\* Properties of cosineSimilarity
\* ======================================================================
Zero == [num |-> 0, densq |-> 1]
IsZeroVector(v) == sumSquares(v) = 0
Positive(s) == ScoreLess(Zero, s)
Negative(s) == ScoreLess(s, Zero)

\* C15: cosineSimilarity is exactly 0 when either vector has norm zero,
\* whatever the other vector; and a ranking over a store with zero-vector
\* records scores every record, each zero-vector record with 0, no positive
\* score after it and no negative score before it.
C15_ZeroNormScoresZero ==
    /\ \A v \in QueryVectors :
          /\ cosineSimilarity(v, << 0, 0 >>) = Zero
          /\ cosineSimilarity(<< 0, 0 >>, v) = Zero
    /\ Ranked =>
          /\ Len(allMatches) = Len(db)
          /\ \A i \in 1..Len(allMatches) :
                (IsZeroVector(allMatches[i].entry.embedding) \/ IsZeroVector(queryEmbedding)) =>
                    /\ allMatches[i].similarity = Zero
                    /\ \A j \in 1..Len(allMatches) :
                          /\ Positive(allMatches[j].similarity) => j < i
                          /\ Negative(allMatches[j].similarity) => j > i

\* A ranking in which a zero-vector record stands between a record with a
\* positive score and a record with a negative score.
C15_Witness ==
    /\ Ranked
    /\ \E i, j, k \in 1..Len(allMatches) :
          /\ i < j /\ j < k
          /\ Positive(allMatches[i].similarity)
          /\ IsZeroVector(allMatches[j].entry.embedding)
          /\ allMatches[j].similarity = Zero
          /\ Negative(allMatches[k].similarity)

\* ======================================================================
\* Properties of the threshold as an input
\* ======================================================================
\* similarity >= t, for a threshold t given in hundredths
MeetsRequested(s, t) ==
    \/ t.val <= 0 /\ s.num >= 0
    \/ /\ s.num > 0
       /\ s.num * s.num * SIMILARITY_THRESHOLD_DEN * SIMILARITY_THRESHOLD_DEN
            >= t.val * t.val * s.densq
\* The threshold the claim says a search uses.
ThresholdInUse ==
    IF requestedThreshold.kind = "num" THEN requestedThreshold
    ELSE Num(SIMILARITY_THRESHOLD_NUM)

\* C16: a search for which the caller supplied a threshold filters with that
\* value, and one for which none was supplied filters with 0.28: the
\* returned matches are the first topN records of the sorted list that meet
\* the threshold in use.
C16_ThresholdPerCall ==
    (Ranked /\ topN >= 0) =>
        LET meeting == SelectSeq(allMatches, LAMBDA m : MeetsRequested(m.similarity, ThresholdInUse))
        IN  topMatches = SubSeq(meeting, 1, Min(topN, Len(meeting)))

\* ======================================================================
\* Properties of repeated index runs
\* ======================================================================
\* C17: when an index run is repeated with the same directory, cap and
\* provider, db.json after the second run is what it was after the first,
\* and no file path occurs twice in it.
C17_ReindexIdempotent ==
    (rerun /\ IndexRan) =>
        /\ dbFile = dbBefore
        /\ \A i, j \in 1..Len(dbFile.records) :
              dbFile.records[i].filePath = dbFile.records[j].filePath => i = j

\* A capped index run that saved at least two records has been repeated and
\* has saved again.
C17_Witness ==
    /\ rerun /\ IndexRan /\ outcome = "IndexSaved"
    /\ Truthy(limit)
    /\ Len(db) >= 2
    /\ IsStore(dbBefore)

\* ======================================================================
\* CLIPSingleton under getter calls that overlap
\* ======================================================================
\* A getter runs without interruption from its call, or from the resumption
\* of its await, to its next await or its return: a field that is not null
\* is passed over, a null field starts a from_pretrained call and suspends
\* the getter, and the return reads the fields as they are then.
RECURSIVE runToAwait(_, _, _)
runToAwait(call, inst, cnt) ==
    IF call.todo = << >>
    THEN [call |-> [call EXCEPT !.got = [r \in Resources |->
                                            IF r \in call.asked THEN inst[r] ELSE 0]],
          loadCount |-> cnt]
    ELSE LET r == Head(call.todo)
         IN  IF inst[r] # 0
             THEN runToAwait([call EXCEPT !.todo = Tail(@)], inst, cnt)
             ELSE [call |-> [call EXCEPT !.loading = cnt[r] + 1],
                   loadCount |-> [cnt EXCEPT ![r] = @ + 1]]

\* The caller has no getter call in flight.
NotInFlight(c) == calls[c].todo = << >> /\ calls[c].loading = 0

\* Caller c calls one getter of v3.4.0: getTokenizer, getProcessor,
\* getVisionModel or getTextModel.
CallGetter(c, r) ==
    /\ version = "3.4.0"
    /\ NotInFlight(c)
    /\ LET ran == runToAwait([todo |-> << r >>, asked |-> {r}, loading |-> 0,
                              got |-> NoInstance], instance, loadCount)
       IN  /\ calls' = [calls EXCEPT ![c] = ran.call]
           /\ loadCount' = ran.loadCount
    /\ UNCHANGED << dbFile, envVars, pc, runVars, indexLocals, db, searchLocals,
                    outcome, dbBefore, instance >>

\* Caller c calls getInstance of v3.0.1.
CallGetInstance(c) ==
    /\ version = "3.0.1"
    /\ NotInFlight(c)
    /\ LET ran == runToAwait([todo |-> GetInstanceOrder, asked |-> Resources,
                              loading |-> 0, got |-> NoInstance], instance, loadCount)
       IN  /\ calls' = [calls EXCEPT ![c] = ran.call]
           /\ loadCount' = ran.loadCount
    /\ UNCHANGED << dbFile, envVars, pc, runVars, indexLocals, db, searchLocals,
                    outcome, dbBefore, instance >>

\* The from_pretrained call that caller c awaits resolves: the field is
\* assigned and the getter runs on.
Resolve(c) ==
    /\ calls[c].loading # 0
    /\ LET r == Head(calls[c].todo)
           assigned == [instance EXCEPT ![r] = calls[c].loading]
           ran == runToAwait([calls[c] EXCEPT !.todo = Tail(@), !.loading = 0],
                             assigned, loadCount)
       IN  /\ instance' = assigned
           /\ calls' = [calls EXCEPT ![c] = ran.call]
           /\ loadCount' = ran.loadCount
    /\ UNCHANGED << dbFile, envVars, pc, runVars, indexLocals, db, searchLocals,
                    outcome, dbBefore >>

\* A process of either version in which nothing but CLIPSingleton is used.
InitSingleton ==
    /\ dbFile = NoFile
    /\ failing = {}
    /\ unreadable = {}
    /\ pc = "idle"
    /\ command = "none"
    /\ version \in Versions
    /\ rootDir = "pics"
    /\ limit = Undefined
    /\ imageFiles = << >>
    /\ idx = 1
    /\ processedCount = 0
    /\ db = << >>
    /\ attempted = << >>
    /\ topN = DEFAULT_TOP_N
    /\ queryEmbedding = << >>
    /\ allMatches = << >>
    /\ topMatches = << >>
    /\ opened = << >>
    /\ diagnostic = << >>
    /\ outcome = "none"
    /\ dbBefore = dbFile
    /\ parsed = "none"
    /\ bestMatch = << >>
    /\ textCall = "none"
    /\ requestedThreshold = Undefined
    /\ rerun = FALSE
    /\ instance = NoInstance
    /\ loadCount = NoInstance
    /\ calls = NoCalls

NextSingleton ==
    \/ \E c \in Callers, r \in Resources : CallGetter(c, r)
    \/ \E c \in Callers : CallGetInstance(c)
    \/ \E c \in Callers : Resolve(c)

SpecSingleton == InitSingleton /\ [][NextSingleton]_vars

\* C18: from_pretrained has been called at most once for each resource, and
\* any two getter calls that have returned a resource returned the same
\* instance of it.
C18_LoadedAtMostOnce ==
    \A r \in Resources :
        /\ loadCount[r] <= 1
        /\ \A c1, c2 \in Callers :
              (calls[c1].got[r] # 0 /\ calls[c2].got[r] # 0) =>
                  calls[c1].got[r] = calls[c2].got[r]

\* The getter calls indexImages and search make load each resource once: they are
\* awaited one after the other.
SequentialLoadedOnce ==
    \A r \in Resources : loadCount[r] <= 1 /\ instance[r] = loadCount[r]

\* ======================================================================
\* Properties of the order and of the frame of a search
\* ======================================================================
\* C19: a search that ended on a db.json that is absent, does not hold an
\* array of records, or holds zero records has loaded no model and has not
\* embedded the query.
C19_StoreCheckedBeforeProvider ==
    (SearchEnded /\ (~IsStore(dbFile) \/ Len(dbFile.records) = 0)) =>
        /\ loadCount = NoInstance
        /\ textCall = "none"

\* C20: in every state of a search, whatever its outcome, db.json is what it
\* was when the search started.
C20_SearchReadOnly ==
    command = "search" => dbFile = dbBefore

\* A search has ended in each kind of outcome the claim lists; this one
\* returned matches from a store of at least two records.
C20_Witness ==
    /\ SearchEnded /\ outcome = "Matches"
    /\ Len(dbFile.records) >= 2
    /\ opened # << >>


\* ======================================================================
\* Properties of a limit that is not truthy
\* ======================================================================
\* The limit the run was given is 0, NaN or absent.
FalsyLimit == limit = Num(0) \/ limit = NaN \/ limit = Undefined

\* C21: an index run whose limit is 0, NaN (v3.4.0) or absent never reaches
\* the cap: the files attempted so far are a prefix of the discovered files,
\* and when the run has ended every discovered file was attempted, in
\* order, and the records of the successful ones were saved -- what a run
\* with no limit does.
C21_FalsyLimitNoCap ==
    (Discovered /\ FalsyLimit) =>
        /\ ~CapReached
        /\ attempted = SubSeq(imageFiles, 1, Len(attempted))
        /\ pc = "done" =>
              /\ attempted = imageFiles
              /\ processedCount = Len(imageFiles)
              /\ outcome = "IndexSaved"
              /\ db = Embedded(imageFiles)
              /\ dbFile = Snapshot(db)

\* A run given the limit 0 has ended after attempting all four files under pics.
C21_Witness ==
    /\ IndexRan /\ outcome = "IndexSaved"
    /\ limit = Num(0)
    /\ Len(imageFiles) = 4
    /\ attempted = imageFiles

\* The same for the limit NaN, which only main of v3.4.0 passes on.
C21_WitnessNaN ==
    /\ IndexRan /\ outcome = "IndexSaved"
    /\ limit = NaN /\ version = "3.4.0"
    /\ Len(imageFiles) = 4
    /\ attempted = imageFiles


\* ======================================================================
\* The linear scan of v3.0.1 against the sorted list of v3.4.0
\* ======================================================================
\* The best match the scan of v3.0.1 finds in a store for a query vector,
\* and the head of the list v3.4.0 sorts for them.
ScanResult(store, q) == scanBest(store, q, << >>)
SortedHead(store, q) == << sortMatches(scoreAll(store, q))[1] >>
\* The positions of a store whose score for q no record of the store exceeds.
TopPositions(store, q) ==
    { i \in 1..Len(store) :
         \A j \in 1..Len(store) :
            ~ScoreLess(cosineSimilarity(q, store[i].embedding),
                       cosineSimilarity(q, store[j].embedding)) }

\* C22: for the store a search has loaded, when it is not empty, and every
\* query vector, the scan of v3.0.1 yields one match, the first record in
\* store order among those of highest score, and it is the record and the
\* score that head the sorted list of v3.4.0; a search of v3.0.1 that has
\* ended reports that match, and the list of a search of v3.4.0 that has
\* ended starts with it (reported first as a match or as the diagnostic).
C22_ScanEqualsSortedHead ==
    (command = "search" /\ parsed = "array" /\ Len(db) > 0) =>
        /\ \A q \in QueryVectors :
              /\ ScanResult(db, q) = SortedHead(db, q)
              /\ ScanResult(db, q)[1].entry =
                    db[CHOOSE i \in TopPositions(db, q) :
                          \A j \in TopPositions(db, q) : i <= j]
        /\ (pc = "done" /\ outcome = "BestMatch") =>
              bestMatch = SortedHead(db, queryEmbedding)
        /\ Ranked =>
              /\ << allMatches[1] >> = ScanResult(db, queryEmbedding)
              /\ topMatches # << >> => topMatches[1] = allMatches[1]
              /\ (topMatches = << >> /\ topN > 0) => diagnostic = << allMatches[1] >>

\* A search of v3.0.1 has reported the first of two records that share the
\* highest score, the second standing later in the store.
C22_Witness ==
    /\ pc = "done" /\ command = "search" /\ version = "3.0.1"
    /\ outcome = "BestMatch"
    /\ \E i, j \in TopPositions(db, queryEmbedding) :
          /\ i < j
          /\ bestMatch[1].entry = db[i]
          /\ Positive(bestMatch[1].similarity)

====
